---- MODULE Spec2Model ----
(***************************************************************************)
(* Model of the policy retrieval service: three lazily initialised         *)
(* backends (EmbeddingService, VectorStoreService, GenerationService),     *)
(* the vector search with its distance-to-score conversion, the ingest     *)
(* path, the RAG generation step and the search_policies request handler.  *)
(*                                                                         *)
(* Callers are coroutines on one asyncio event loop.  A coroutine runs     *)
(* atomically from one suspension point to the next; the suspension        *)
(* points are the four `await loop.run_in_executor(...)` calls (embedding  *)
(* model load, encode, LLM load, generation).  Each action below is one    *)
(* such atomic stretch of code.                                            *)
(*                                                                         *)
(* Scores and distances are fixed-point numbers in tenths (One = 1.0).     *)
(***************************************************************************)
EXTENDS Integers, Sequences, FiniteSets, TLC

\* ---------------------------------------------------------------- bounds
NTasks == 2          \* concurrent callers in the concurrency specification
MaxK == 3            \* largest max_results tried
MaxBatch == 2        \* longest clause list handed to add_policy_clauses

\* ------------------------------------------------------------- constants
One == 10            \* the literal 1.0 of `score = 1.0 - distance`
Two == 20            \* the largest cosine distance, 2.0
DefaultMaxResults == 10   \* settings.max_results
MaxResultsCeiling == 50   \* PolicySearchRequest.max_results, le=50

None == "None"            \* Python None where a string or an object may stand
NoAnalysis == <<"None">>  \* Python None where a text may stand
NoClausesMessage == <<"No relevant policy clauses were found to analyze this claim.">>
AnswerMarker == "ANALYSIS:"

\* ------------------------------------------------------ data of the model
Queries == {"q1", "q2"}

\* A clause is a Python dict: clause_id and clause_text always present,
\* policy_type and section optional.
ClauseA  == [clause_id |-> "A", clause_text |-> "ta", policy_type |-> "Auto", section |-> "Coverage"]
ClauseA2 == [clause_id |-> "A", clause_text |-> "tc"]
ClauseB  == [clause_id |-> "B", clause_text |-> "tb", policy_type |-> "Auto"]
ClauseC  == [clause_id |-> "C", clause_text |-> "tc", section |-> "Exclusions"]
ClauseD  == [clause_id |-> "D", clause_text |-> "td"]

AllClauses == {ClauseA, ClauseA2, ClauseB, ClauseC, ClauseD}

\* Every sequence over S of length lo..hi.
SeqsUpTo(S, lo, hi) == UNION {[1..n -> S] : n \in lo..hi}

Abs(x) == IF x < 0 THEN 0 - x ELSE x
Min(a, b) == IF a <= b THEN a ELSE b

\* dict.get(key, default)
Get(d, key, default) == IF key \in DOMAIN d THEN d[key] ELSE default

\* Python's `a or b` on an Optional number: None and 0 are both falsy, and
\* both are written 0 here.
PyOr(a, b) == IF a = 0 THEN b ELSE a

\* ------------------------------------------------- the embedding network
\* The sentence encoder is an opaque deterministic function of the text.
\* A vector is represented by its direction, an angle in degrees.
ModelEncode(text) ==
    CASE text = "q1" -> 0
      [] text = "q2" -> 46
      [] text = "ta" -> 26
      [] text = "tb" -> 66
      [] text = "tc" -> 84
      [] text = "td" -> 180
      [] OTHER -> 45

\* 1 - cos(d) for 0 <= d <= 90 degrees, rounded to tenths.
OneMinusCos(d) ==
    IF d <= 18 THEN 0 ELSE IF d <= 31 THEN 1 ELSE IF d <= 41 THEN 2
    ELSE IF d <= 49 THEN 3 ELSE IF d <= 56 THEN 4 ELSE IF d <= 63 THEN 5
    ELSE IF d <= 69 THEN 6 ELSE IF d <= 75 THEN 7 ELSE IF d <= 81 THEN 8
    ELSE IF d <= 87 THEN 9 ELSE 10

\* Cosine distance of two directions (the collection's hnsw:space), in [0, 2].
CosineDistance(u, v) ==
    LET d == Abs(u - v)
    IN  IF d <= 90 THEN OneMinusCos(d) ELSE Two - OneMinusCos(180 - d)

\* ------------------------------------------------------- the collection
\* An entry of the collection: [id, embedding, document, metadata].
IdsOf(entries) == {entries[i].id : i \in 1..Len(entries)}

\* Stable insertion of one raw result into a list sorted by distance.
RECURSIVE InsertByDistance(_, _)
InsertByDistance(sorted, r) ==
    IF sorted = <<>> THEN <<r>>
    ELSE IF r.distance < Head(sorted).distance
         THEN <<r>> \o sorted
         ELSE <<Head(sorted)>> \o InsertByDistance(Tail(sorted), r)

RECURSIVE SortByDistance(_)
SortByDistance(rs) ==
    IF rs = <<>> THEN <<>>
    ELSE InsertByDistance(SortByDistance(SubSeq(rs, 1, Len(rs) - 1)), rs[Len(rs)])

\* collection.query(query_embeddings=[q], n_results=n): the n nearest
\* entries by ascending cosine distance, equal distances in insertion order.
RankedEntries(entries, q) ==
    SortByDistance([i \in 1..Len(entries) |->
        [id |-> entries[i].id,
         document |-> entries[i].document,
         metadata |-> entries[i].metadata,
         distance |-> CosineDistance(q, entries[i].embedding)]])

CollectionQuery(entries, q, n) ==
    LET ranked == RankedEntries(entries, q)
    IN  SubSeq(ranked, 1, Min(n, Len(ranked)))

\* collection.count()
CollectionCount(entries) == Len(entries)

HasDuplicates(ids) == \E i, j \in 1..Len(ids) : i < j /\ ids[i] = ids[j]

\* collection.add(...): a batch that names one id twice is rejected; an id
\* that is already stored is never overwritten: depending on the library
\* version the record is skipped silently ("ignore") or the call raises
\* ("raise").  Returns [raised, entries].
RECURSIVE AppendNew(_, _, _)
AppendNew(entries, batch, i) ==
    IF i > Len(batch) THEN entries
    ELSE IF batch[i].id \in IdsOf(entries)
         THEN AppendNew(entries, batch, i + 1)
         ELSE AppendNew(Append(entries, batch[i]), batch, i + 1)

CollectionAdd(entries, embeddings, documents, metadatas, ids, onExisting) ==
    LET batch == [i \in 1..Len(ids) |->
                    [id |-> ids[i], embedding |-> embeddings[i],
                     document |-> documents[i], metadata |-> metadatas[i]]]
    IN  IF HasDuplicates(ids)
        THEN [raised |-> TRUE, entries |-> entries]
        ELSE IF onExisting = "raise" /\ \E i \in 1..Len(ids) : ids[i] \in IdsOf(entries)
             THEN [raised |-> TRUE, entries |-> entries]
             ELSE [raised |-> FALSE, entries |-> AppendNew(entries, batch, 1)]

\* ------------------------------------------- VectorStoreService.search
\* Mutant: the distance taken for the relevance.
ScoreIsDistance(distance) == distance

\* score = 1.0 - distance
Score(distance) == One - distance

\* Mutant: a strict threshold.
PassesStrict(score, min_score) == score > min_score

\* The filter of one raw result: `if score >= min_score`
Passes(score, min_score) == score >= min_score

ClauseDict(r) ==
    [clause_id |-> r.id,
     clause_text |-> r.document,
     policy_type |-> Get(r.metadata, "policy_type", None),
     section |-> Get(r.metadata, "section", None),
     relevance_score |-> Score(r.distance)]

\* Mutant: every passing result is put in front of the list.
RECURSIVE FormatResultsPrepend(_, _, _)
FormatResultsPrepend(raw, min_score, i) ==
    IF i > Len(raw) THEN <<>>
    ELSE IF Passes(Score(raw[i].distance), min_score)
         THEN FormatResultsPrepend(raw, min_score, i + 1)
              \o <<[clause |-> ClauseDict(raw[i]), score |-> Score(raw[i].distance)]>>
         ELSE FormatResultsPrepend(raw, min_score, i + 1)

\* The loop over results["ids"][0]: append (clause_dict, score) for every
\* raw result that passes, in the order of the raw results.
RECURSIVE FormatResults(_, _, _)
FormatResults(raw, min_score, i) ==
    IF i > Len(raw) THEN <<>>
    ELSE IF Passes(Score(raw[i].distance), min_score)
         THEN <<[clause |-> ClauseDict(raw[i]), score |-> Score(raw[i].distance)]>>
              \o FormatResults(raw, min_score, i + 1)
         ELSE FormatResults(raw, min_score, i + 1)

\* Everything search() does once the query embedding is there.
SearchResults(entries, query_embedding, max_results, min_score) ==
    FormatResults(CollectionQuery(entries, query_embedding, max_results), min_score, 1)

\* ------------------------------------ add_policy_clauses, data preparation
AddTexts(clauses) == [i \in 1..Len(clauses) |-> clauses[i].clause_text]
AddIds(clauses) == [i \in 1..Len(clauses) |-> clauses[i].clause_id]
AddMetadatas(clauses) ==
    [i \in 1..Len(clauses) |->
        [policy_type |-> Get(clauses[i], "policy_type", ""),
         section |-> Get(clauses[i], "section", "")]]

\* ---------------------------------------------- GenerationService, prompt
\* Mutant: the bullet lines in the reverse of the order given.
RECURSIVE ContextLinesReversed(_)
ContextLinesReversed(clauses) ==
    IF clauses = <<>> THEN <<>>
    ELSE <<"- [", clauses[Len(clauses)].clause_id, "] ", clauses[Len(clauses)].clause_text>>
         \o (IF Len(clauses) > 1 THEN <<"\n">> ELSE <<>>)
         \o ContextLinesReversed(SubSeq(clauses, 1, Len(clauses) - 1))

\* "\n".join of one bullet line per clause: f"- [{clause_id}] {clause_text}"
RECURSIVE ContextLines(_)
ContextLines(clauses) ==
    IF clauses = <<>> THEN <<>>
    ELSE <<"- [", Head(clauses).clause_id, "] ", Head(clauses).clause_text>>
         \o (IF Len(clauses) > 1 THEN <<"\n">> ELSE <<>>)
         \o ContextLines(Tail(clauses))

BuildPrompt(query, clauses) ==
    <<"Instruct: You are an expert Insurance Policy Analyst. Based on the following policy clauses, analyze the user's claim description. State if it is likely covered and cite the clause ID.\n\n",
      "POLICY CLAUSES:\n">>
    \o ContextLines(clauses)
    \o <<"\n\n", "USER CLAIM: ", query, "\n\n", AnswerMarker>>

\* Mutant: split(...)[1], the text after the first marker up to the next one.
AfterFirstMarker(text) ==
    IF \E i \in 1..Len(text) : text[i] = AnswerMarker
    THEN LET first == CHOOSE i \in 1..Len(text) :
                        text[i] = AnswerMarker /\ \A j \in 1..(i-1) : text[j] # AnswerMarker
             rest == SubSeq(text, first + 1, Len(text))
         IN  IF \E i \in 1..Len(rest) : rest[i] = AnswerMarker
             THEN SubSeq(rest, 1, (CHOOSE i \in 1..Len(rest) :
                        rest[i] = AnswerMarker /\ \A j \in 1..(i-1) : rest[j] # AnswerMarker) - 1)
             ELSE rest
    ELSE text

\* full_response.split("ANALYSIS:")[-1]: the text after the last marker, the
\* whole text when there is no marker.
RECURSIVE AfterLastMarker(_)
AfterLastMarker(text) ==
    IF \E i \in 1..Len(text) : text[i] = AnswerMarker
    THEN AfterLastMarker(SubSeq(text, (CHOOSE i \in 1..Len(text) : text[i] = AnswerMarker /\ \A j \in 1..(i-1) : text[j] # AnswerMarker) + 1, Len(text)))
    ELSE text

IsSpace(tok) == tok \in {" ", "\n", "\n\n"}

\* str.strip()
RECURSIVE Strip(_)
Strip(text) ==
    IF text = <<>> THEN <<>>
    ELSE IF IsSpace(Head(text)) THEN Strip(Tail(text))
    ELSE IF IsSpace(text[Len(text)]) THEN Strip(SubSeq(text, 1, Len(text) - 1))
    ELSE text

ExtractAnalysis(full_response) == Strip(AfterLastMarker(full_response))

\* ------------------------------------------------------------------ state
VARIABLES
    embedding_service,     \* [model, initialized]
    generation_service,    \* [model, tokenizer, initialized]
    vector_store_service,  \* [client, collection, initialized]
    chroma,                \* the persistent database: [exists, entries]
    pc,                    \* per caller: where its coroutine is suspended
    frame,                 \* per caller: the operation it runs and its locals
    result,                \* per caller: what its last operation returned or raised
    peerOutcome,           \* per caller waiting in initialize(): the outcome another
                           \* caller, waiting on the same backend meanwhile, has received;
                           \* per caller inside add_policy_clauses: "written" once
                           \* another add_policy_clauses call has written meanwhile
    logged,                \* the log events the last step has emitted, in order
    assigned               \* the attributes of the services the last step has assigned

vars == <<embedding_service, generation_service, vector_store_service, chroma,
          pc, frame, result, peerOutcome, logged, assigned>>

services == <<embedding_service, generation_service, vector_store_service, chroma>>

Tasks == DOMAIN pc

NoFrame == [op |-> "none"]
NoResult == [status |-> "none"]

\* The module-level singletons right after construction (__init__), an
\* empty database directory and `tasks` idle callers.
InitWith(tasks) ==
    /\ embedding_service = [model |-> None, initialized |-> FALSE]
    /\ generation_service = [model |-> None, tokenizer |-> None, initialized |-> FALSE]
    /\ vector_store_service = [client |-> None, collection |-> None, initialized |-> FALSE]
    /\ chroma = [exists |-> FALSE, entries |-> <<>>]
    /\ pc = [t \in tasks |-> "idle"]
    /\ frame = [t \in tasks |-> NoFrame]
    /\ result = [t \in tasks |-> NoResult]
    /\ peerOutcome = [t \in tasks |-> "none"]
    /\ logged = <<>>
    /\ assigned = {}

\* ---------------------------------------------------------------- logging
\* The events of logger.info / logger.error that tell of an initialization
\* or of a search whose results were all filtered out.
EmbInitializing == [msg |-> "Initializing embedding model"]
EmbInitialized == [msg |-> "Embedding model initialized successfully"]
VsInitializing == [msg |-> "Initializing ChromaDB"]
VsInitialized == [msg |-> "Vector store initialized successfully"]
GenInitializing == [msg |-> "Initializing LLM for generation"]
GenInitialized == [msg |-> "LLM initialized successfully"]

AllFilteredEvent(best_score, min_score) ==
    [msg |-> "All results filtered out by min_score",
     best_found_score |-> best_score, threshold |-> min_score]

\* What the frame that catches an exception logs: the lifespan and the
\* request handler log an error, every other frame lets it pass silently.
RaiseEvents(fr, err) ==
    IF fr.op = "search_policies" THEN <<[msg |-> "Policy search failed", error |-> err]>>
    ELSE IF fr.op = "lifespan" THEN <<[msg |-> "Failed to initialize services", error |-> err]>>
    ELSE <<>>

Log(events) == logged' = events

\* ------------------------------------------------------------ assignments
\* The attributes a step assigns (`self.model = ...`), by service.
EmbAssigned == {"embedding_service.model", "embedding_service._initialized"}

GenAssigned == {"generation_service.tokenizer", "generation_service.model",
                "generation_service._initialized"}

Assign(attrs) == assigned' = attrs

\* --------------------------------------------------------- control helpers
Ctl(t, newpc, fr, res) ==
    /\ pc' = [pc EXCEPT ![t] = newpc]
    /\ frame' = [frame EXCEPT ![t] = fr]
    /\ result' = [result EXCEPT ![t] = res]

\* The operation of caller t returns `value`.
Return(t, fr, value) ==
    Ctl(t, "idle", NoFrame, [status |-> "ok", op |-> fr.op, call |-> fr, value |-> value])

\* search_policies turns every exception into HTTP 500 (except Exception).
ErrorResponse(fr, err) ==
    [status |-> "http", op |-> fr.op, call |-> fr, code |-> 500, detail |-> err]

\* An exception leaves the operation of caller t: every frame but the request
\* handler lets it through to the caller.
Raise(t, fr, err) ==
    IF fr.op = "search_policies"
    THEN Ctl(t, "idle", NoFrame, ErrorResponse(fr, err))
    ELSE Ctl(t, "idle", NoFrame, [status |-> "error", op |-> fr.op, call |-> fr, error |-> err])

Suspend(t, at, fr) == Ctl(t, at, fr, NoResult)

\* Bookkeeping of who waited together: when caller t leaves its wait in
\* initialize() with `outcome`, every caller still waiting on the same
\* backend remembers the first outcome a fellow waiter received.
PeersAfter(t, outcome) ==
    peerOutcome' = [u \in Tasks |->
        IF u = t THEN "none"
        ELSE IF pc[u] = pc[t] /\ peerOutcome[u] = "none" THEN outcome
        ELSE peerOutcome[u]]

\* ------------------------------------------ VectorStoreService.initialize
\* The method has no await: it runs to its end, or to its exception, within
\* the atomic stretch of the caller.  Its outcomes: "ok"; PersistentClient
\* raises ("client_fail"); get_collection and create_collection both raise
\* ("create_fail", the client is already assigned).
\* Mutant: initialize() without its early return.
VsNeedsInitAlways == TRUE

\* `if self._initialized: return`
VsNeedsInit == ~vector_store_service.initialized

VsOutcomes == IF VsNeedsInit THEN {"ok", "client_fail", "create_fail"} ELSE {"ok"}

VsRaises(o) == VsNeedsInit /\ o # "ok"

\* Mutant: an initialize() that makes the collection anew (delete, create).
VsInitializeRecreates(t, o) ==
    /\ vector_store_service' =
         IF ~VsNeedsInit THEN vector_store_service
         ELSE IF o = "ok"
              THEN [client |-> "PersistentClient", collection |-> "Collection", initialized |-> TRUE]
         ELSE IF o = "create_fail"
              THEN [vector_store_service EXCEPT !.client = "PersistentClient"]
         ELSE vector_store_service
    /\ chroma' = IF VsNeedsInit /\ o = "ok" THEN [exists |-> TRUE, entries |-> <<>>] ELSE chroma

\* initialize(): get_collection, or create_collection when there is none;
\* what the database holds is left as it is.
VsInitialize(t, o) ==
    /\ vector_store_service' =
         IF ~VsNeedsInit THEN vector_store_service
         ELSE IF o = "ok"
              THEN [client |-> "PersistentClient", collection |-> "Collection", initialized |-> TRUE]
         ELSE IF o = "create_fail"
              THEN [vector_store_service EXCEPT !.client = "PersistentClient"]
         ELSE vector_store_service
    /\ chroma' = IF VsNeedsInit /\ o = "ok" THEN [chroma EXCEPT !.exists = TRUE] ELSE chroma

\* What initialize() logs: nothing when already initialized, else the start
\* event and, when it gets to its end, the success event.
VsEvents(o) ==
    IF ~VsNeedsInit THEN <<>>
    ELSE IF o = "ok" THEN <<VsInitializing, VsInitialized>>
    ELSE <<VsInitializing>>

\* What initialize() assigns: nothing when already initialized or when
\* PersistentClient raises; the client alone when no collection is had; else
\* client, collection and flag.
VsAssigned(o) ==
    IF ~VsNeedsInit \/ o = "client_fail" THEN {}
    ELSE IF o = "create_fail" THEN {"vector_store_service.client"}
    ELSE {"vector_store_service.client", "vector_store_service.collection",
          "vector_store_service._initialized"}

\* ------------------------------------------- EmbeddingService.initialize
\* Mutant: initialize() without its early return.
EmbNeedsLoadAlways == TRUE

\* `if self._initialized: return`
EmbNeedsLoad == ~embedding_service.initialized

\* initialize() logs its start event after the early return.
EmbStartEvents == IF EmbNeedsLoad THEN <<EmbInitializing>> ELSE <<>>

\* Mutant: a search that finds the backend ready does not encode: it queries
\* at once, as with an embedding kept from an earlier search.
EncodeEntrySkips(t, fr) ==
    IF EmbNeedsLoad THEN Suspend(t, "emb_load", fr)
    ELSE IF fr.texts = <<>> THEN Return(t, fr, <<>>)
    ELSE IF fr.op = "search"
         THEN Return(t, fr, SearchResults(chroma.entries, ModelEncode(fr.texts[1]),
                                          fr.max_results, fr.min_score))
    ELSE Suspend(t, "emb_encode", fr)

\* encode() up to its first suspension: the lazy initialize() (which
\* suspends in the model load), the empty-list shortcut, or the encode call.
EncodeEntry(t, fr) ==
    IF EmbNeedsLoad THEN Suspend(t, "emb_load", fr)
    ELSE IF fr.texts = <<>> THEN Return(t, fr, <<>>)
    ELSE Suspend(t, "emb_encode", fr)

\* await embedding_service.initialize()
CallEmbInitialize(t) ==
    /\ pc[t] = "idle"
    /\ LET fr == [op |-> "embedding.initialize"]
       IN  IF EmbNeedsLoad THEN Suspend(t, "emb_load", fr) ELSE Return(t, fr, None)
    /\ Log(EmbStartEvents)
    /\ Assign({})
    /\ UNCHANGED <<services, peerOutcome>>

\* await embedding_service.encode(texts)
CallEncode(t, texts) ==
    /\ pc[t] = "idle"
    /\ EncodeEntry(t, [op |-> "encode", texts |-> texts])
    /\ Log(EmbStartEvents)
    /\ Assign({})
    /\ UNCHANGED <<services, peerOutcome>>

\* The model load of caller t completes: model and flag are assigned, and the
\* caller goes on (initialize returns; encode goes on to its encode call).
EmbLoadOk(t) ==
    /\ pc[t] = "emb_load"
    /\ frame[t].op # "lifespan"
    /\ embedding_service' = [model |-> "SentenceTransformer", initialized |-> TRUE]
    /\ IF frame[t].op = "embedding.initialize" THEN Return(t, frame[t], None)
       ELSE IF frame[t].texts = <<>> THEN Return(t, frame[t], <<>>)
       ELSE Suspend(t, "emb_encode", frame[t])
    /\ PeersAfter(t, "ok")
    /\ Log(<<EmbInitialized>>)
    /\ Assign(EmbAssigned)
    /\ UNCHANGED <<generation_service, vector_store_service, chroma>>

\* The model load of caller t raises: nothing is assigned.
EmbLoadFail(t) ==
    /\ pc[t] = "emb_load"
    /\ Raise(t, frame[t], "EmbeddingLoadError")
    /\ PeersAfter(t, "fail")
    /\ Log(RaiseEvents(frame[t], "EmbeddingLoadError"))
    /\ Assign({})
    /\ UNCHANGED services

\* self.model.encode(texts).tolist()
Embeddings(texts) == [i \in 1..Len(texts) |-> ModelEncode(texts[i])]

\* encode(texts) returns to a direct caller.
EncodeDone(t) ==
    /\ pc[t] = "emb_encode"
    /\ frame[t].op = "encode"
    /\ Return(t, frame[t], Embeddings(frame[t].texts))
    /\ Log(<<>>)
    /\ Assign({})
    /\ UNCHANGED <<services, peerOutcome>>

\* The encode call raises.
EncodeFail(t) ==
    /\ pc[t] = "emb_encode"
    /\ Raise(t, frame[t], "EncodeError")
    /\ Log(RaiseEvents(frame[t], "EncodeError"))
    /\ Assign({})
    /\ peerOutcome' = [peerOutcome EXCEPT ![t] = "none"]
    /\ UNCHANGED services

\* --------------------------------------------- VectorStoreService.search
SearchFrame(op, query_text, max_results, min_score) ==
    [op |-> op, query_text |-> query_text, max_results |-> max_results,
     min_score |-> min_score, texts |-> <<query_text>>]

\* search() up to its first suspension.
SearchEntry(t, fr) ==
    \E o \in VsOutcomes :
        /\ VsInitialize(t, o)
        /\ IF VsRaises(o) THEN Raise(t, fr, "VectorStoreInitError") ELSE EncodeEntry(t, fr)
        /\ Log(VsEvents(o) \o (IF VsRaises(o) THEN RaiseEvents(fr, "VectorStoreInitError")
                                ELSE EmbStartEvents))
        /\ Assign(VsAssigned(o))

\* await vector_store_service.search(query_text, max_results, min_score)
CallSearch(t, query_text, max_results, min_score) ==
    /\ pc[t] = "idle"
    /\ SearchEntry(t, SearchFrame("search", query_text, max_results, min_score))
    /\ UNCHANGED <<embedding_service, generation_service, peerOutcome>>

\* Mutant: the query embedding kept in a buffer that the searches in flight
\* share: the search queries with the embedding of whichever caller is
\* found encoding.
SearchOutcomeShared(fr) ==
    LET u == CHOOSE u \in Tasks :
                 pc[u] = "emb_encode" /\ frame[u].op \in {"search", "search_policies"}
    IN  SearchResults(chroma.entries, Embeddings(frame[u].texts)[1],
                      fr.max_results, fr.min_score)

\* encode_single returns embeddings[0]; query, format, return.
SearchOutcome(fr) ==
    SearchResults(chroma.entries, Embeddings(fr.texts)[1], fr.max_results, fr.min_score)

\* The raw results of the query of search().
RawResults(fr) ==
    CollectionQuery(chroma.entries, Embeddings(fr.texts)[1], fr.max_results)

\* Mutant: the test for `all filtered out` without its guard on the raw results.
AllFilteredUnguarded(formatted_results, raw) == formatted_results = <<>>

\* `if not formatted_results and results["ids"] and len(results["ids"][0]) > 0`
AllFiltered(formatted_results, raw) == formatted_results = <<>> /\ raw # <<>>

\* Mutant: the score of the last raw result reported as the best one.
BestFoundScoreLast(raw) == One - raw[Len(raw)].distance

\* best_score = 1.0 - results["distances"][0][0]
BestFoundScore(raw) == One - raw[1].distance

\* results["distances"][0][0] on an empty list raises IndexError.
SearchIndexError(fr) == AllFiltered(SearchOutcome(fr), RawResults(fr)) /\ RawResults(fr) = <<>>

\* What search() logs after its query.
SearchEvents(fr) ==
    IF AllFiltered(SearchOutcome(fr), RawResults(fr))
    THEN <<AllFilteredEvent(BestFoundScore(RawResults(fr)), fr.min_score)>>
    ELSE <<>>

SearchDone(t) ==
    /\ pc[t] = "emb_encode"
    /\ frame[t].op = "search"
    /\ IF SearchIndexError(frame[t])
       THEN Raise(t, frame[t], "IndexError") /\ Log(<<>>)
       ELSE Return(t, frame[t], SearchOutcome(frame[t])) /\ Log(SearchEvents(frame[t]))
    /\ Assign({})
    /\ UNCHANGED <<services, peerOutcome>>

\* ----------------------------------------------------- get_collection_count
CallGetCollectionCount(t) ==
    /\ pc[t] = "idle"
    /\ \E o \in VsOutcomes :
        /\ VsInitialize(t, o)
        /\ LET fr == [op |-> "get_collection_count"]
           IN  IF VsRaises(o) THEN Raise(t, fr, "VectorStoreInitError")
               ELSE Return(t, fr, CollectionCount(chroma.entries))
        /\ Log(VsEvents(o))
        /\ Assign(VsAssigned(o))
    /\ UNCHANGED <<embedding_service, generation_service, peerOutcome>>

\* ------------------------------------------------------- add_policy_clauses
CallAddPolicyClauses(t, clauses) ==
    /\ pc[t] = "idle"
    /\ LET fr == [op |-> "add_policy_clauses", clauses |-> clauses, texts |-> AddTexts(clauses)]
       IN  \E o \in VsOutcomes :
            /\ VsInitialize(t, o)
            /\ IF VsRaises(o) THEN Raise(t, fr, "VectorStoreInitError")
               ELSE IF clauses = <<>> THEN Return(t, fr, None)
               ELSE EncodeEntry(t, fr)
            /\ Log(VsEvents(o) \o (IF VsRaises(o) \/ clauses = <<>> THEN <<>>
                                    ELSE EmbStartEvents))
            /\ Assign(VsAssigned(o))
    /\ UNCHANGED <<embedding_service, generation_service, peerOutcome>>

\* Mutant: the write puts the batch in the place of the collection.
AddOutcomeReplace(fr, entries, onExisting) ==
    CollectionAdd(<<>>, Embeddings(fr.texts), fr.texts,
                  AddMetadatas(fr.clauses), AddIds(fr.clauses), onExisting)

\* Bookkeeping of overlapping ingests: when caller t has written, every
\* caller still inside add_policy_clauses remembers it.
IngestPeersAfter(t, written) ==
    peerOutcome' = [u \in Tasks |->
        IF u = t THEN "none"
        ELSE IF written /\ pc[u] = "emb_encode" /\ frame[u].op = "add_policy_clauses"
             THEN "written"
        ELSE peerOutcome[u]]

\* The embeddings are there: prepare ids, documents, metadatas and add.
AddOutcome(fr, entries, onExisting) ==
    CollectionAdd(entries, Embeddings(fr.texts), fr.texts,
                  AddMetadatas(fr.clauses), AddIds(fr.clauses), onExisting)

AddDone(t) ==
    /\ pc[t] = "emb_encode"
    /\ frame[t].op = "add_policy_clauses"
    /\ \E onExisting \in {"ignore", "raise"} :
        LET r == AddOutcome(frame[t], chroma.entries, onExisting)
        IN  /\ chroma' = [chroma EXCEPT !.entries = r.entries]
            /\ IF r.raised THEN Raise(t, frame[t], "DuplicateIDError")
               ELSE Return(t, frame[t], None)
            /\ IngestPeersAfter(t, ~r.raised)
    /\ Log(<<>>)
    /\ Assign({})
    /\ UNCHANGED <<embedding_service, generation_service, vector_store_service>>

\* ----------------------------------------------- VectorStoreService.initialize
\* await vector_store_service.initialize()
CallVsInitialize(t) ==
    /\ pc[t] = "idle"
    /\ \E o \in VsOutcomes :
        /\ VsInitialize(t, o)
        /\ LET fr == [op |-> "vector_store.initialize"]
           IN  IF VsRaises(o) THEN Raise(t, fr, "VectorStoreInitError")
               ELSE Return(t, fr, None)
        /\ Log(VsEvents(o))
        /\ Assign(VsAssigned(o))
    /\ UNCHANGED <<embedding_service, generation_service, peerOutcome>>

\* ----------------------------------------------------- GenerationService
\* `if self._initialized: return`
GenNeedsLoad == ~generation_service.initialized

\* What generate_analysis hands back to its caller: the request handler puts
\* it into its response.
Response(fr, policy_clauses, analysis) ==
    [status |-> "http", op |-> fr.op, call |-> fr, code |-> 200,
     body |-> [query |-> fr.request.claim_description,
               results |-> policy_clauses,
               analysis |-> analysis,
               total_results |-> Len(policy_clauses)]]

AnalysisReturn(t, fr, analysis) ==
    IF fr.op = "search_policies"
    THEN Ctl(t, "idle", NoFrame, Response(fr, fr.retrieved_clauses, analysis))
    ELSE Return(t, fr, analysis)

\* generate_analysis after its lazy initialize(): the empty-clauses
\* shortcut, else prompt construction and the generation call.
AfterGenReady(t, fr) ==
    IF fr.op = "generation.initialize" THEN Return(t, fr, None)
    ELSE IF fr.op = "lifespan" THEN Suspend(t, "serving", fr)
    ELSE IF fr.retrieved_clauses = <<>> THEN AnalysisReturn(t, fr, NoClausesMessage)
    ELSE Suspend(t, "gen_run", [fr EXCEPT !.prompt = BuildPrompt(fr.query, fr.retrieved_clauses)])

\* initialize() logs its start event after the early return.
GenStartEvents == IF GenNeedsLoad THEN <<GenInitializing>> ELSE <<>>

\* generate_analysis up to its first suspension.
GenEntry(t, fr) ==
    IF GenNeedsLoad THEN Suspend(t, "gen_load", fr) ELSE AfterGenReady(t, fr)

GenFrame(op, query, retrieved_clauses) ==
    [op |-> op, query |-> query, retrieved_clauses |-> retrieved_clauses, prompt |-> <<>>,
     full_response |-> <<>>]

\* await generation_service.initialize()
CallGenInitialize(t) ==
    /\ pc[t] = "idle"
    /\ GenEntry(t, [op |-> "generation.initialize"])
    /\ Log(GenStartEvents)
    /\ Assign({})
    /\ UNCHANGED <<services, peerOutcome>>

\* await generation_service.generate_analysis(query, retrieved_clauses)
CallGenerateAnalysis(t, query, retrieved_clauses) ==
    /\ pc[t] = "idle"
    /\ GenEntry(t, GenFrame("generate_analysis", query, retrieved_clauses))
    /\ Log(GenStartEvents)
    /\ Assign({})
    /\ UNCHANGED <<services, peerOutcome>>

\* The tokenizer and model load of caller t completes.
GenLoadOk(t) ==
    /\ pc[t] = "gen_load"
    /\ generation_service' = [model |-> "AutoModelForCausalLM", tokenizer |-> "AutoTokenizer", initialized |-> TRUE]
    /\ AfterGenReady(t, frame[t])
    /\ PeersAfter(t, "ok")
    /\ Log(<<GenInitialized>>)
    /\ Assign(GenAssigned)
    /\ UNCHANGED <<embedding_service, vector_store_service, chroma>>

\* The load of caller t raises: nothing is assigned.
GenLoadFail(t) ==
    /\ pc[t] = "gen_load"
    /\ Raise(t, frame[t], "GenerationLoadError")
    /\ PeersAfter(t, "fail")
    /\ Log(RaiseEvents(frame[t], "GenerationLoadError"))
    /\ Assign({})
    /\ UNCHANGED services

\* What the language model may decode to: the prompt followed by new text
\* (with or without a further marker in it), or a text without the marker.
Generations ==
    {<<" ", "Likely covered.", " ">>,
     <<" ", "Draft.", AnswerMarker, " ", "Not covered.">>}

FullResponses(prompt) ==
    {prompt \o g : g \in Generations} \cup {<<"Likely covered.", "\n">>}

\* run_generation returns.
GenRunOk(t) ==
    /\ pc[t] = "gen_run"
    /\ \E full_response \in FullResponses(frame[t].prompt) :
        AnalysisReturn(t, [frame[t] EXCEPT !.full_response = full_response],
                       ExtractAnalysis(full_response))
    /\ Log(<<>>)
    /\ Assign({})
    /\ UNCHANGED <<services, peerOutcome>>

\* tokenizer, generate or decode raises.
GenRunFail(t) ==
    /\ pc[t] = "gen_run"
    /\ Raise(t, frame[t], "GenerationError")
    /\ Log(RaiseEvents(frame[t], "GenerationError"))
    /\ Assign({})
    /\ UNCHANGED <<services, peerOutcome>>

\* ------------------------------------------------ search_policies (handler)
\* request: [claim_description, max_results, min_score, is_enable_rag]
HandlerFrame(request) ==
    [op |-> "search_policies", request |-> request,
     query_text |-> request.claim_description,
     max_results |-> PyOr(request.max_results, DefaultMaxResults),
     min_score |-> PyOr(request.min_score, 0),
     texts |-> <<request.claim_description>>,
     query |-> request.claim_description,
     retrieved_clauses |-> <<>>, prompt |-> <<>>, full_response |-> <<>>]

\* The validation of a PolicySearchRequest before the handler is entered:
\* max_results is null (written 0) or in 1..50, min_score is in [0, 1].
ValidRequest(request) ==
    /\ request.max_results = 0
          \/ (1 <= request.max_results /\ request.max_results <= MaxResultsCeiling)
    /\ 0 <= request.min_score /\ request.min_score <= One

\* A request that fails the validation is answered 422; the handler does not run.
RejectRequest(t, request) ==
    /\ pc[t] = "idle"
    /\ ~ValidRequest(request)
    /\ Ctl(t, "idle", NoFrame,
           [status |-> "http", op |-> "search_policies", call |-> HandlerFrame(request),
            code |-> 422, detail |-> "RequestValidationError"])
    /\ Log(<<>>)
    /\ Assign({})
    /\ UNCHANGED <<services, peerOutcome>>

CallSearchPolicies(t, request) ==
    /\ pc[t] = "idle"
    /\ ValidRequest(request)
    /\ SearchEntry(t, HandlerFrame(request))
    /\ UNCHANGED <<embedding_service, generation_service, peerOutcome>>

\* PolicyClause(**clause_dict): relevance_score has ge=0.0, le=1.0
ValidClause(c) == 0 <= c.relevance_score /\ c.relevance_score <= One

PolicyClauses(results) == [i \in 1..Len(results) |-> results[i].clause]

\* Mutant: the generation step taken whenever clauses were retrieved.
GenerationEnabledAnyway(request, policy_clauses) == policy_clauses # <<>>

\* `if request.is_enable_rag and policy_clauses`
GenerationEnabled(request, policy_clauses) ==
    request.is_enable_rag /\ policy_clauses # <<>>

\* search() has returned to the handler: format, then generate or respond.
HandlerAfterSearch(t) ==
    /\ pc[t] = "emb_encode"
    /\ frame[t].op = "search_policies"
    /\ LET policy_clauses == PolicyClauses(SearchOutcome(frame[t]))
           fr == [frame[t] EXCEPT !.retrieved_clauses = policy_clauses]
       IN  IF SearchIndexError(frame[t])
           THEN Raise(t, fr, "IndexError") /\ Log(RaiseEvents(fr, "IndexError"))
           ELSE IF \E i \in 1..Len(policy_clauses) : ~ValidClause(policy_clauses[i])
           THEN /\ Raise(t, fr, "ValidationError")
                /\ Log(SearchEvents(frame[t]) \o RaiseEvents(fr, "ValidationError"))
           ELSE IF GenerationEnabled(frame[t].request, policy_clauses)
                THEN GenEntry(t, fr) /\ Log(SearchEvents(frame[t]) \o GenStartEvents)
                ELSE /\ Ctl(t, "idle", NoFrame, Response(fr, policy_clauses, NoAnalysis))
                     /\ Log(SearchEvents(frame[t]))
    /\ Assign({})
    /\ UNCHANGED <<services, peerOutcome>>

\* ------------------------------------------------------------ health_check
\* Mutant: healthy as soon as one of the two is there.
HealthStatusEither(model_loaded, vector_store_ready) ==
    IF model_loaded \/ vector_store_ready THEN "healthy" ELSE "degraded"

\* status = "healthy" if (model_loaded and vector_store_ready) else "degraded"
HealthStatus(model_loaded, vector_store_ready) ==
    IF model_loaded /\ vector_store_ready THEN "healthy" ELSE "degraded"

HealthResponse(model_loaded, vector_store_ready) ==
    [status |-> "http", op |-> "health_check", call |-> [op |-> "health_check"], code |-> 200,
     body |-> [status |-> HealthStatus(model_loaded, vector_store_ready),
               model_loaded |-> model_loaded,
               vector_store_ready |-> vector_store_ready]]

\* The handler has no await: it reads the two flags and answers.
HealthCheck(t) ==
    /\ pc[t] = "idle"
    /\ LET model_loaded == embedding_service.initialized
           vector_store_ready == vector_store_service.initialized
       IN  Ctl(t, "idle", NoFrame, HealthResponse(model_loaded, vector_store_ready))
    /\ Log(<<>>)
    /\ Assign({})
    /\ UNCHANGED <<services, peerOutcome>>

\* ------------------------------------------------------ lifespan (startup)
\* Mutant: a startup that goes on to the generation backend whatever
\* vector_store_service.initialize() did.
LifespanAfterEmbeddingSwallows(t, fr, before, assignedBefore) ==
    \E o \in VsOutcomes :
        /\ VsInitialize(t, o)
        /\ GenEntry(t, fr)
        /\ Log(before \o VsEvents(o) \o GenStartEvents)
        /\ Assign(assignedBefore \cup VsAssigned(o))

\* The startup after embedding_service.initialize() has returned:
\* vector_store_service.initialize(), then generation_service.initialize();
\* with all three done the coroutine stays at its `yield` while the
\* application serves.  An exception is logged and raised again: startup fails.
LifespanAfterEmbedding(t, fr, before, assignedBefore) ==
    \E o \in VsOutcomes :
        /\ VsInitialize(t, o)
        /\ IF VsRaises(o) THEN Raise(t, fr, "VectorStoreInitError") ELSE GenEntry(t, fr)
        /\ Log(before \o VsEvents(o) \o (IF VsRaises(o) THEN RaiseEvents(fr, "VectorStoreInitError")
                                          ELSE GenStartEvents))
        /\ Assign(assignedBefore \cup VsAssigned(o))

\* The application starts: the lifespan runs up to its first suspension.
CallLifespan(t) ==
    /\ \A u \in Tasks : pc[u] = "idle" /\ result[u] = NoResult
    /\ LET fr == [op |-> "lifespan"]
       IN  IF EmbNeedsLoad
           THEN /\ Suspend(t, "emb_load", fr)
                /\ Log(EmbStartEvents)
                /\ Assign({})
                /\ UNCHANGED <<vector_store_service, chroma>>
           ELSE LifespanAfterEmbedding(t, fr, <<>>, {})
    /\ UNCHANGED <<embedding_service, generation_service, peerOutcome>>

\* The embedding model load of the startup completes.
LifespanEmbLoadOk(t) ==
    /\ pc[t] = "emb_load"
    /\ frame[t].op = "lifespan"
    /\ embedding_service' = [model |-> "SentenceTransformer", initialized |-> TRUE]
    /\ LifespanAfterEmbedding(t, frame[t], <<EmbInitialized>>, EmbAssigned)
    /\ PeersAfter(t, "ok")
    /\ UNCHANGED generation_service

\* Requests are served while the lifespan is at its `yield`.
Serving == \E t \in Tasks : pc[t] = "serving"

\* ----------------------------------------------------------- specifications
Request(q, k, m, rag) ==
    [claim_description |-> q, max_results |-> k, min_score |-> m, is_enable_rag |-> rag]

\* The clause list the handler passes on for a hit on clause A.
RetrievedA ==
    <<[clause_id |-> "A", clause_text |-> "ta", policy_type |-> "Auto",
       section |-> "Coverage", relevance_score |-> 9]>>

MinScores == {0 - One, 0, 4, 5}

\* Requests that PolicySearchRequest does not accept.
BadRequests ==
    {Request("q1", k, 0, FALSE) : k \in {0 - 1, MaxResultsCeiling + 1}}
    \cup {Request("q1", 0, m, FALSE) : m \in {0 - 1, One + 1}}

\* The steps a caller of the services takes after a suspension.
Resume ==
    \/ \E t \in Tasks : EmbLoadOk(t)
    \/ \E t \in Tasks : EmbLoadFail(t)
    \/ \E t \in Tasks : EncodeDone(t)
    \/ \E t \in Tasks : EncodeFail(t)
    \/ \E t \in Tasks : SearchDone(t)
    \/ \E t \in Tasks : AddDone(t)
    \/ \E t \in Tasks : GenLoadOk(t)
    \/ \E t \in Tasks : GenLoadFail(t)
    \/ \E t \in Tasks : GenRunOk(t)
    \/ \E t \in Tasks : GenRunFail(t)

\* Spec: NTasks concurrent callers of every operation, over a small choice of
\* arguments.
Init == InitWith(1..NTasks)

Next ==
    \/ \E t \in Tasks : CallEmbInitialize(t)
    \/ \E t \in Tasks : CallVsInitialize(t)
    \/ \E t \in Tasks : CallGenInitialize(t)
    \/ \E t \in Tasks : \E texts \in {<<>>, <<"q1">>} : CallEncode(t, texts)
    \/ \E t \in Tasks : CallSearch(t, "q1", 1, 5)
    \/ \E t \in Tasks : CallAddPolicyClauses(t, <<ClauseA>>)
    \/ \E t \in Tasks : \E cs \in {<<>>, RetrievedA} : CallGenerateAnalysis(t, "q1", cs)
    \/ Resume

Spec == Init /\ [][Next]_vars

\* SpecData: one caller at a time, over every clause list, query, max_results
\* and min_score of the model.
InitData == InitWith({1})

NextData ==
    \/ \E t \in Tasks : CallGenInitialize(t)
    \/ \E t \in Tasks : \E cs \in SeqsUpTo(AllClauses, 0, MaxBatch) : CallAddPolicyClauses(t, cs)
    \/ \E t \in Tasks : \E q \in Queries, k \in 1..MaxK, m \in MinScores : CallSearch(t, q, k, m)
    \/ \E t \in Tasks : CallGetCollectionCount(t)
    \/ \E t \in Tasks : \E ts \in SeqsUpTo(Queries, 0, 2) : CallEncode(t, ts)
    \/ \E t \in Tasks : \E q \in Queries, k \in {0, MaxK}, m \in {0, 5}, rag \in BOOLEAN :
            CallSearchPolicies(t, Request(q, k, m, rag))
    \/ \E t \in Tasks : \E request \in BadRequests : RejectRequest(t, request)
    \/ \E t \in Tasks : HandlerAfterSearch(t)
    \/ Resume

SpecData == InitData /\ [][NextData]_vars

\* SpecApp: the application: the lifespan startup in caller 0, then NTasks
\* concurrent callers that post search_policies requests and ingest clauses.
InitApp ==
    /\ InitWith(0..NTasks)

NextApp ==
    \/ CallLifespan(0)
    \/ LifespanEmbLoadOk(0)
    \/ EmbLoadFail(0)
    \/ GenLoadOk(0)
    \/ GenLoadFail(0)
    \/ \E t \in Tasks \ {0} : \E rag \in BOOLEAN :
            Serving /\ CallSearchPolicies(t, Request("q1", 0, 0, rag))
    \/ \E t \in Tasks \ {0} : \E cs \in {<<ClauseA>>, <<ClauseB, ClauseC>>} :
            Serving /\ CallAddPolicyClauses(t, cs)
    \/ \E t \in Tasks \ {0} : EncodeFail(t)
    \/ \E t \in Tasks \ {0} : AddDone(t)
    \/ \E t \in Tasks \ {0} : HandlerAfterSearch(t)
    \/ \E t \in Tasks \ {0} : GenRunOk(t)
    \/ \E t \in Tasks \ {0} : GenRunFail(t)

SpecApp == InitApp /\ [][NextApp]_vars

\* SpecRead: the application serves (the three backends are Ready) over a
\* database that an earlier run has filled with clauses C, A, B; NTasks
\* concurrent callers make read-only requests: searches and counts.
StoredClauses == <<ClauseC, ClauseA, ClauseB>>

StoredIndex ==
    AddOutcome([clauses |-> StoredClauses, texts |-> AddTexts(StoredClauses)],
               <<>>, "ignore").entries

InitRead ==
    /\ embedding_service = [model |-> "SentenceTransformer", initialized |-> TRUE]
    /\ generation_service = [model |-> "AutoModelForCausalLM", tokenizer |-> "AutoTokenizer",
                             initialized |-> TRUE]
    /\ vector_store_service = [client |-> "PersistentClient", collection |-> "Collection",
                               initialized |-> TRUE]
    /\ chroma = [exists |-> TRUE, entries |-> StoredIndex]
    /\ pc = [t \in 1..NTasks |-> "idle"]
    /\ frame = [t \in 1..NTasks |-> NoFrame]
    /\ result = [t \in 1..NTasks |-> NoResult]
    /\ peerOutcome = [t \in 1..NTasks |-> "none"]
    /\ logged = <<>>
    /\ assigned = {}

NextRead ==
    \/ \E t \in Tasks : \E q \in Queries, k \in {1, MaxK}, m \in {0, 5} : CallSearch(t, q, k, m)
    \/ \E t \in Tasks : CallGetCollectionCount(t)
    \/ \E t \in Tasks : SearchDone(t)
    \/ \E t \in Tasks : EncodeFail(t)

SpecRead == InitRead /\ [][NextRead]_vars

\* SpecStore: NTasks concurrent callers of the four operations of the vector
\* store (initialize, search, add_policy_clauses, get_collection_count) on
\* freshly constructed services, as in a process that has just started.  The
\* database directory is empty, or holds what an earlier process (the sample
\* data script) has stored: clauses C, A, B.
InitStore ==
    /\ embedding_service = [model |-> None, initialized |-> FALSE]
    /\ generation_service = [model |-> None, tokenizer |-> None, initialized |-> FALSE]
    /\ vector_store_service = [client |-> None, collection |-> None, initialized |-> FALSE]
    /\ chroma \in {[exists |-> FALSE, entries |-> <<>>],
                   [exists |-> TRUE, entries |-> StoredIndex]}
    /\ pc = [t \in 1..NTasks |-> "idle"]
    /\ frame = [t \in 1..NTasks |-> NoFrame]
    /\ result = [t \in 1..NTasks |-> NoResult]
    /\ peerOutcome = [t \in 1..NTasks |-> "none"]
    /\ logged = <<>>
    /\ assigned = {}

NextStore ==
    \/ \E t \in Tasks : CallVsInitialize(t)
    \/ \E t \in Tasks : \E m \in {5, One} : CallSearch(t, "q1", 1, m)
    \/ \E t \in Tasks : CallAddPolicyClauses(t, <<ClauseD>>)
    \/ \E t \in Tasks : CallGetCollectionCount(t)
    \/ \E t \in Tasks : EmbLoadOk(t)
    \/ \E t \in Tasks : EmbLoadFail(t)
    \/ \E t \in Tasks : EncodeFail(t)
    \/ \E t \in Tasks : SearchDone(t)
    \/ \E t \in Tasks : AddDone(t)

SpecStore == InitStore /\ [][NextStore]_vars

\* SpecHealth: NTasks concurrent callers that initialize the three backends
\* and call health_check, on freshly constructed services.
InitHealth == InitWith(1..NTasks)

NextHealth ==
    \/ \E t \in Tasks : HealthCheck(t)
    \/ \E t \in Tasks : CallEmbInitialize(t)
    \/ \E t \in Tasks : CallVsInitialize(t)
    \/ \E t \in Tasks : CallGenInitialize(t)
    \/ \E t \in Tasks : EmbLoadOk(t)
    \/ \E t \in Tasks : EmbLoadFail(t)
    \/ \E t \in Tasks : GenLoadOk(t)
    \/ \E t \in Tasks : GenLoadFail(t)

SpecHealth == InitHealth /\ [][NextHealth]_vars

\* ------------------------------------------------------------------ claims
LoadErrors == {"EmbeddingLoadError", "GenerationLoadError"}

\* The operation of a caller has ended in the failure of its initialize().
InitFailed(res) ==
    \/ res.status = "error" /\ res.error \in LoadErrors
    \/ res.status = "http" /\ res.code = 500 /\ res.detail \in LoadErrors

Waiting(t) == pc[t] \in {"emb_load", "gen_load"}

\* C1: single-flight initialization: whatever the interleaving of the
\* callers, no second load of a backend starts while a first one is in
\* flight, i.e. at most one caller at a time is inside the model load of the
\* embedding backend, and at most one inside the load of the generation
\* backend (the vector store opens its client and collection within one
\* atomic stretch, so no two of its loads overlap).
C1_SingleFlight ==
    /\ Cardinality({t \in Tasks : pc[t] = "emb_load"}) <= 1
    /\ Cardinality({t \in Tasks : pc[t] = "gen_load"}) <= 1

\* C2: shared outcome: a caller that leaves its wait in initialize() after a
\* caller waiting on the same backend meanwhile has received an outcome,
\* receives the same outcome: never a failure for one and a success for the
\* other.
C2_SharedOutcome ==
    [][\A t \in Tasks :
         (Waiting(t) /\ pc'[t] # pc[t] /\ peerOutcome[t] # "none")
            => (InitFailed(result'[t]) <=> peerOutcome[t] = "fail")]_vars

\* C3: retry on failure: when an initialization attempt raises, the backend
\* is left not ready (its flag is false); a call to initialize() on a backend
\* that is not ready starts a fresh attempt; and an attempt that succeeds
\* makes the backend Ready.
C3_FailureLeavesNotReady ==
    [][\A t \in Tasks :
         /\ (pc[t] = "emb_load" /\ pc'[t] = "idle" /\ InitFailed(result'[t]))
               => ~embedding_service'.initialized
         /\ (pc[t] = "gen_load" /\ pc'[t] = "idle" /\ InitFailed(result'[t]))
               => ~generation_service'.initialized
         /\ (pc[t] = "idle" /\ result'[t] # result[t] /\ result'[t].status = "error"
                /\ result'[t].error = "VectorStoreInitError")
               => ~vector_store_service'.initialized
         /\ (pc[t] = "idle" /\ frame'[t].op = "embedding.initialize"
                /\ ~embedding_service.initialized) => pc'[t] = "emb_load"
         /\ (pc[t] = "emb_load" /\ pc'[t] # "emb_load" /\ ~InitFailed(result'[t]))
               => embedding_service'.initialized
         /\ (pc[t] = "gen_load" /\ pc'[t] # "gen_load" /\ ~InitFailed(result'[t]))
               => generation_service'.initialized]_vars

\* C4: Ready is terminal: a flag that is true stays true, and a call that
\* begins when the backend is Ready starts no load: it does not enter the
\* model load of the embedding or generation backend, and it leaves the
\* vector store's client and collection as they are.
C4_ReadyIsTerminal ==
    [][/\ embedding_service.initialized => embedding_service'.initialized
       /\ generation_service.initialized => generation_service'.initialized
       /\ vector_store_service.initialized => vector_store_service' = vector_store_service
       /\ \A t \in Tasks :
            /\ (pc[t] = "idle" /\ embedding_service.initialized) => pc'[t] # "emb_load"
            /\ (pc[t] = "idle" /\ generation_service.initialized) => pc'[t] # "gen_load"]_vars

\* C4 witness: all three backends are Ready and two callers have both
\* returned from vector_store_service.initialize(): the later of the two
\* calls began when the store was Ready.
C4_Witness ==
    /\ embedding_service.initialized
    /\ generation_service.initialized
    /\ vector_store_service.initialized
    /\ \E t, u \in Tasks :
        /\ t # u
        /\ result[t].status = "ok" /\ result[t].op = "vector_store.initialize"
        /\ result[u].status = "ok" /\ result[u].op = "vector_store.initialize"

\* C9: generation short-circuit: generate_analysis(query, []) returns the
\* fixed message and makes no call on the generation backend: a caller with
\* an empty clause list is never inside the model load or the generate call,
\* and what it gets back is the fixed message.
AnalyzeEmpty(fr) == fr.op = "generate_analysis" /\ fr.retrieved_clauses = <<>>

C9_ShortCircuit ==
    \A t \in Tasks :
        /\ AnalyzeEmpty(frame[t]) => pc[t] \notin {"gen_load", "gen_run"}
        /\ (result[t].status # "none" /\ AnalyzeEmpty(result[t].call))
              => (result[t].status = "ok" /\ result[t].value = NoClausesMessage)

\* ---- search: what is expected of a result, stated on the stored entries
\* The distance of entry i of E from the query text q.
DistanceTo(E, q, i) == CosineDistance(ModelEncode(q), E[i].embedding)

\* Entry j is ranked before entry i: nearer, or as near and stored earlier.
Before(E, q, j, i) ==
    \/ DistanceTo(E, q, j) < DistanceTo(E, q, i)
    \/ DistanceTo(E, q, j) = DistanceTo(E, q, i) /\ j < i

\* The k nearest entries, and those of them at or above the threshold.
Nearest(E, q, k) ==
    {i \in 1..Len(E) : Cardinality({j \in 1..Len(E) : Before(E, q, j, i)}) < k}

Kept(E, q, k, m) == {i \in Nearest(E, q, k) : One - DistanceTo(E, q, i) >= m}

ResultIds(R) == [n \in 1..Len(R) |-> R[n].clause.clause_id]

ExpectedResult(E, q, k, m, R) ==
    LET K == Kept(E, q, k, m)
    IN  /\ Len(R) = Cardinality(K)
        /\ Len(R) <= k
        /\ \A n \in 1..Len(R) :
            \E i \in K :
                /\ Cardinality({j \in K : Before(E, q, j, i)}) = n - 1
                /\ R[n].clause.clause_id = E[i].id
                /\ R[n].clause.clause_text = E[i].document
                /\ R[n].clause.policy_type = E[i].metadata.policy_type
                /\ R[n].clause.section = E[i].metadata.section
                /\ R[n].score = One - DistanceTo(E, q, i)
                /\ R[n].clause.relevance_score = R[n].score

\* The index of the scenario: A, B, C scoring 0.9, 0.4, 0.1 against q1.
ScenarioIndex(E) ==
    /\ IdsOf(E) = {"A", "B", "C"}
    /\ \A i \in 1..Len(E) :
        One - DistanceTo(E, "q1", i) =
            (CASE E[i].id = "A" -> 9 [] E[i].id = "B" -> 4 [] OTHER -> 1)

SearchReturns(t) ==
    /\ pc[t] = "emb_encode"
    /\ frame[t].op = "search"
    /\ result'[t].status = "ok"

\* C5: search result content: search() returns exactly those of the k
\* nearest entries whose score 1 - distance is at least min_score, each with
\* that score and its stored text and metadata, in their order of rank, at
\* most k of them; on the index A = 0.9, B = 0.4, C = 0.1 the search
\* (k = 3, min_score = 0.5) returns [A] and (k = 2, min_score = 0.0) [A, B].
C5_SearchContent ==
    [][\A t \in Tasks : SearchReturns(t) =>
          LET fr == frame[t]
              R == result'[t].value
          IN  /\ ExpectedResult(chroma.entries, fr.query_text, fr.max_results, fr.min_score, R)
              /\ (ScenarioIndex(chroma.entries) /\ fr.query_text = "q1"
                    /\ fr.max_results = 3 /\ fr.min_score = 5) => ResultIds(R) = <<"A">>
              /\ (ScenarioIndex(chroma.entries) /\ fr.query_text = "q1"
                    /\ fr.max_results = 2 /\ fr.min_score = 0) => ResultIds(R) = <<"A", "B">>]_vars

SearchResultOf(t) == result[t].status = "ok" /\ result[t].op = "search"

\* C5 witness: the scenario search (k = 3, min_score = 0.5) has returned [A].
C5_Witness ==
    \E t \in Tasks :
        /\ SearchResultOf(t)
        /\ ScenarioIndex(chroma.entries)
        /\ result[t].call.query_text = "q1"
        /\ result[t].call.max_results = 3
        /\ result[t].call.min_score = 5
        /\ ResultIds(result[t].value) = <<"A">>

\* C6: score bound: every clause a search with min_score in [0, 1] returns
\* has a score in [0, 1] that is at least min_score, and its
\* relevance_score is that score.
C6_ScoreBound ==
    \A t \in Tasks :
        (SearchResultOf(t) /\ result[t].call.min_score \in 0..One) =>
            \A n \in 1..Len(result[t].value) :
                LET r == result[t].value[n]
                IN  /\ 0 <= r.score /\ r.score <= One
                    /\ r.score >= result[t].call.min_score
                    /\ r.clause.relevance_score = r.score

\* C6 witness: a search with min_score 0 over an index that holds an entry of
\* negative score among its nearest has returned a clause.
C6_Witness ==
    \E t \in Tasks :
        /\ SearchResultOf(t)
        /\ result[t].call.min_score = 0
        /\ result[t].call.max_results >= Len(chroma.entries)
        /\ \E i \in 1..Len(chroma.entries) :
               One - DistanceTo(chroma.entries, result[t].call.query_text, i) < 0
        /\ Len(result[t].value) >= 1

\* The place of a clause id in the collection.
PlaceOf(E, id) == CHOOSE i \in 1..Len(E) : E[i].id = id

\* C7: ordering: the returned sequence is sorted by descending score, equal
\* scores in the order in which the index holds them.
C7_Ordering ==
    \A t \in Tasks :
        SearchResultOf(t) =>
            \A n, p \in 1..Len(result[t].value) :
                n < p =>
                    LET a == result[t].value[n]
                        b == result[t].value[p]
                    IN  \/ a.score > b.score
                        \/ /\ a.score = b.score
                           /\ PlaceOf(chroma.entries, a.clause.clause_id)
                                < PlaceOf(chroma.entries, b.clause.clause_id)

\* C7 witness: a result of three clauses, the first two of equal score and
\* the third of a lower one, over an index stored in another order (the
\* lowest-scoring of the three was stored first).
C7_Witness ==
    \E t \in Tasks :
        /\ SearchResultOf(t)
        /\ Len(result[t].value) = 3
        /\ result[t].value[1].score = result[t].value[2].score
        /\ result[t].value[2].score > result[t].value[3].score
        /\ PlaceOf(chroma.entries, result[t].value[3].clause.clause_id) = 1

\* C8: generation failure does not discard retrieval: when the generation
\* step of a search_policies request with non-empty retrieval fails, the
\* response still carries the retrieved clauses.
ResponseResults(res) == IF "body" \in DOMAIN res THEN res.body.results ELSE <<>>

C8_RetrievalSurvivesGenerationFailure ==
    [][\A t \in Tasks :
         (/\ pc[t] \in {"gen_load", "gen_run"}
          /\ frame[t].op = "search_policies"
          /\ frame[t].retrieved_clauses # <<>>
          /\ pc'[t] = "idle")
            => ResponseResults(result'[t]) = frame[t].retrieved_clauses]_vars

\* C10: upsert semantics: after add_policy_clauses with a clause list, every
\* clause of the list is stored under its id with the text and metadata
\* given (a stored id is overwritten), ids stay unique, and re-adding stored
\* ids leaves the count unchanged.
NoRepeatedId(E) == \A i, j \in 1..Len(E) : E[i].id = E[j].id => i = j

StoredAs(E, c) ==
    \E i \in 1..Len(E) :
        /\ E[i].id = c.clause_id
        /\ E[i].document = c.clause_text
        /\ E[i].metadata = [policy_type |-> Get(c, "policy_type", ""),
                            section |-> Get(c, "section", "")]

C10_Upsert ==
    [][\A t \in Tasks :
         (/\ pc[t] = "emb_encode"
          /\ frame[t].op = "add_policy_clauses"
          /\ ~HasDuplicates(AddIds(frame[t].clauses))
          /\ pc'[t] = "idle"
          /\ ~(result'[t].status = "error" /\ result'[t].error = "EncodeError"))
            => /\ \A i \in 1..Len(frame[t].clauses) : StoredAs(chroma'.entries, frame[t].clauses[i])
               /\ NoRepeatedId(chroma'.entries)
               /\ (\A i \in 1..Len(frame[t].clauses) :
                      frame[t].clauses[i].clause_id \in IdsOf(chroma.entries))
                    => CollectionCount(chroma'.entries) = CollectionCount(chroma.entries)]_vars

\* The operation has ended in the failure of the encode call itself.
EncodeFailed(res) ==
    \/ res.status = "error" /\ res.error = "EncodeError"
    \/ res.status = "http" /\ res.code = 500 /\ res.detail = "EncodeError"

\* Caller t completes the query of its search in this step.
SearchCompletes(t) ==
    /\ pc[t] = "emb_encode"
    /\ frame[t].op \in {"search", "search_policies"}
    /\ pc'[t] # "emb_encode"
    /\ ~EncodeFailed(result'[t])

\* C11: empty index is not an error: a search whose query runs against a
\* ready index that holds no clause returns the empty list and raises
\* nothing, whatever the query, max_results >= 1 and min_score; through the
\* request handler it is a 200 response with no results.
C11_EmptyIndex ==
    [][\A t \in Tasks :
         (SearchCompletes(t) /\ vector_store_service.initialized
            /\ chroma.entries = <<>> /\ frame[t].max_results >= 1)
            => IF frame[t].op = "search"
               THEN result'[t].status = "ok" /\ result'[t].value = <<>>
               ELSE /\ result'[t].status = "http" /\ result'[t].code = 200
                    /\ result'[t].body.results = <<>>
                    /\ result'[t].body.total_results = 0]_vars

\* C11 witness: a search has returned the empty list and the index, which
\* never loses an entry, is still empty.
C11_Witness ==
    \E t \in Tasks :
        /\ SearchResultOf(t)
        /\ result[t].value = <<>>
        /\ vector_store_service.initialized
        /\ chroma.entries = <<>>

\* Caller t, idle, makes a call in this step; the call is in its new frame,
\* or in its result when the call has ended within the step.
CallStarted(t) == pc[t] = "idle" /\ (pc'[t] # "idle" \/ result'[t] # result[t])

StartedSearch(t) ==
    /\ CallStarted(t)
    /\ IF pc'[t] # "idle" THEN frame'[t].op \in {"search", "search_policies"}
       ELSE result'[t].op \in {"search", "search_policies"}

TheCall(t) == IF pc'[t] # "idle" THEN frame'[t] ELSE result'[t].call

InvalidSearchArgs(fr) == fr.max_results <= 0 \/ fr.min_score < 0 \/ fr.min_score > One

Rejected(res) ==
    \/ res.status = "error" /\ res.error = "InvalidArgument"
    \/ res.status = "http" /\ res.code = 422

\* C12: fail-fast argument validation: a search called with max_results <= 0
\* or min_score outside [0, 1] ends at once in an invalid-argument error: no
\* backend is initialized, nothing is encoded or queried, and the shared
\* state is as it was.
C12_FailFast ==
    [][\A t \in Tasks :
         (StartedSearch(t) /\ InvalidSearchArgs(TheCall(t)))
            => /\ pc'[t] = "idle"
               /\ Rejected(result'[t])
               /\ services' = services]_vars

\* C13: max_results ceiling: a search request that asks for more than the
\* ceiling is not rejected: the search goes on with max_results set to the
\* ceiling.
C13_Clamp ==
    [][\A t \in Tasks :
         (StartedSearch(t) /\ TheCall(t).op = "search_policies"
            /\ TheCall(t).request.max_results > MaxResultsCeiling)
            => /\ ~Rejected(result'[t])
               /\ TheCall(t).max_results = MaxResultsCeiling]_vars

\* The places in a list of log events of the `all filtered out` signal.
Signals(L) == {i \in 1..Len(L) : L[i].msg = "All results filtered out by min_score"}

\* The query has candidates and none of them reaches the threshold.
AllBelow(E, q, k, m) == Nearest(E, q, k) # {} /\ Kept(E, q, k, m) = {}

\* b is the highest score among the candidates.
IsBestScore(E, q, k, b) ==
    /\ \E i \in Nearest(E, q, k) : One - DistanceTo(E, q, i) = b
    /\ \A i \in Nearest(E, q, k) : One - DistanceTo(E, q, i) <= b

\* C14: all-filtered edge case: when the query of a search has at least one
\* candidate and every candidate scores below min_score, the search returns
\* the empty list without error and logs the `all filtered out` signal
\* exactly once, with the highest of the filtered scores; no other step logs
\* the signal: not a search over no candidates, not one with a passing result.
C14_AllFilteredSignal ==
    [][/\ \A t \in Tasks :
            SearchCompletes(t) =>
              LET fr == frame[t]
                  E == chroma.entries
              IN  IF AllBelow(E, fr.query_text, fr.max_results, fr.min_score)
                  THEN /\ Cardinality(Signals(logged')) = 1
                       /\ \A i \in Signals(logged') :
                             /\ IsBestScore(E, fr.query_text, fr.max_results,
                                            logged'[i].best_found_score)
                             /\ logged'[i].threshold = fr.min_score
                       /\ IF fr.op = "search"
                          THEN result'[t].status = "ok" /\ result'[t].value = <<>>
                          ELSE /\ result'[t].status = "http" /\ result'[t].code = 200
                               /\ result'[t].body.results = <<>>
                  ELSE Signals(logged') = {}
       /\ Signals(logged') # {} => \E t \in Tasks : SearchCompletes(t)]_vars

\* C14 witness: over an index of at least two entries whose best candidate
\* scores 0.4, a search with min_score 0.5 and max_results >= 2 has just
\* returned the empty list, and the signal carries 0.4.
C14_Witness ==
    \E t \in Tasks :
        /\ SearchResultOf(t)
        /\ result[t].value = <<>>
        /\ result[t].call.max_results >= 2
        /\ Len(chroma.entries) >= 2
        /\ logged = <<AllFilteredEvent(4, 5)>>

\* Caller t ends its add_policy_clauses in this step, past its encode call.
AddCompletes(t) ==
    /\ pc[t] = "emb_encode"
    /\ frame[t].op = "add_policy_clauses"
    /\ pc'[t] = "idle"
    /\ ~EncodeFailed(result'[t])

IsPrefix(a, b) == Len(a) <= Len(b) /\ SubSeq(b, 1, Len(a)) = a

\* Every entry is of one piece: its embedding is that of its document.
WholeEntries(E) == \A i \in 1..Len(E) : E[i].embedding = ModelEncode(E[i].document)

\* C15: serialized ingest: the write of an add_policy_clauses call is one
\* step that no other call's write shares; it keeps every entry written
\* before, so that after two overlapping calls the index holds the clauses of
\* both: every id of a call that returned is stored, a new id with the text
\* and metadata given; entries are of one piece and ids unique; a write that
\* raises leaves the index as it was.
C15_SerializedIngest ==
    [][/\ chroma'.entries # chroma.entries
            => Cardinality({t \in Tasks : AddCompletes(t)}) = 1
       /\ \A t \in Tasks :
            AddCompletes(t) =>
              IF result'[t].status = "ok"
              THEN /\ IsPrefix(chroma.entries, chroma'.entries)
                   /\ \A i \in 1..Len(frame[t].clauses) :
                        LET c == frame[t].clauses[i]
                        IN  /\ c.clause_id \in IdsOf(chroma'.entries)
                            /\ c.clause_id \notin IdsOf(chroma.entries)
                                  => StoredAs(chroma'.entries, c)
                   /\ NoRepeatedId(chroma'.entries)
                   /\ WholeEntries(chroma'.entries)
              ELSE chroma'.entries = chroma.entries]_vars

\* C15 witness: caller u is inside add_policy_clauses, between its call and
\* its write, and another caller's add_policy_clauses has written meanwhile
\* and returned; its clause is in the index.
C15_Witness ==
    \E t, u \in Tasks :
        /\ t # u
        /\ pc[u] = "emb_encode" /\ frame[u].op = "add_policy_clauses"
        /\ peerOutcome[u] = "written"
        /\ result[t].status = "ok" /\ result[t].op = "add_policy_clauses"
        /\ result[t].call.clauses # frame[u].clauses
        /\ \A i \in 1..Len(result[t].call.clauses) :
               StoredAs(chroma.entries, result[t].call.clauses[i])

\* How often the list of log events L holds the event e.
Count(L, e) == Cardinality({i \in 1..Len(L) : L[i] = e})

\* How many events of L report a failure.
FailedCount(L) == Cardinality({i \in 1..Len(L) : "error" \in DOMAIN L[i]})

\* The terminal event of an attempt: `done` once when it succeeded, else no
\* `done` and one failure event.
TerminalEvent(failed, done) ==
    IF failed THEN Count(logged', done) = 0 /\ FailedCount(logged') = 1
    ELSE Count(logged', done) = 1

\* C16: initialization events per attempt: an attempt logs its `initializing`
\* event once, at its start, and one terminal event at its end: `initialized`
\* when it succeeds, a failure event when it raises; a step that starts no
\* attempt logs no `initializing` event, however many callers ask.  (The
\* vector store's attempt starts and ends within one step.)
C16_EventsPerAttempt ==
    [][/\ Count(logged', EmbInitializing)
            = Cardinality({t \in Tasks : pc[t] # "emb_load" /\ pc'[t] = "emb_load"})
       /\ Count(logged', GenInitializing)
            = Cardinality({t \in Tasks : pc[t] # "gen_load" /\ pc'[t] = "gen_load"})
       /\ \A t \in Tasks :
            /\ (pc[t] = "emb_load" /\ pc'[t] # "emb_load")
                  => TerminalEvent(InitFailed(result'[t]), EmbInitialized)
            /\ (pc[t] = "gen_load" /\ pc'[t] # "gen_load")
                  => TerminalEvent(InitFailed(result'[t]), GenInitialized)
       /\ Count(logged', VsInitializing) <= 1
       /\ vector_store_service' # vector_store_service => Count(logged', VsInitializing) = 1
       /\ Count(logged', VsInitializing) = 0 => Count(logged', VsInitialized) = 0
       /\ Count(logged', VsInitializing) = 1
            => /\ ~vector_store_service.initialized
               /\ TerminalEvent(~vector_store_service'.initialized, VsInitialized)]_vars

\* ---- generation: what came back, and from which raw output
\* The result is an analysis that the generation call has produced.
Generated(res) ==
    /\ res.status \in {"ok", "http"}
    /\ res.op \in {"generate_analysis", "search_policies"}
    /\ res.status = "http" => res.code = 200
    /\ res.call.full_response # <<>>

AnalysisOf(res) == IF res.op = "generate_analysis" THEN res.value ELSE res.body.analysis

HasMarker(r) == \E i \in 1..Len(r) : r[i] = AnswerMarker

\* a is x without its leading and trailing whitespace.
TrimmedOf(x, a) ==
    \E i \in 1..(Len(x) + 1) : \E j \in 0..Len(x) :
        /\ a = SubSeq(x, i, j)
        /\ \A n \in 1..Len(x) : (n < i \/ n > j) => IsSpace(x[n])
        /\ a # <<>> => (~IsSpace(a[1]) /\ ~IsSpace(a[Len(a)]))

\* What follows the marker at place i of r.
After(r, i) == SubSeq(r, i + 1, Len(r))

\* C17 as stated: the analysis is the text that follows the answer marker
\* of the raw output (its surrounding whitespace aside); of a raw output
\* without the marker, the analysis is the raw output verbatim.
C17_MarkerExtraction ==
    \A t \in Tasks :
        Generated(result[t]) =>
            LET r == result[t].call.full_response
                a == AnalysisOf(result[t])
            IN  IF HasMarker(r)
                THEN \E i \in 1..Len(r) :
                        r[i] = AnswerMarker /\ (a = After(r, i) \/ TrimmedOf(After(r, i), a))
                ELSE a = r

\* C17 as amended: the analysis is the text that follows the last answer
\* marker of the raw output, without its leading and trailing whitespace; of
\* a raw output without the marker, it is the raw output without its leading
\* and trailing whitespace.
C17_MarkerExtractionTrimmed ==
    \A t \in Tasks :
        Generated(result[t]) =>
            LET r == result[t].call.full_response
                a == AnalysisOf(result[t])
            IN  IF HasMarker(r)
                THEN \E i \in 1..Len(r) :
                        /\ r[i] = AnswerMarker
                        /\ \A j \in (i + 1)..Len(r) : r[j] # AnswerMarker
                        /\ TrimmedOf(After(r, i), a)
                ELSE TrimmedOf(r, a)

\* C17 witness: a raw output that repeats the marker after the prompt has
\* been cut down to what follows the last marker.
C17_Witness ==
    \E t \in Tasks :
        /\ Generated(result[t])
        /\ Cardinality({i \in 1..Len(result[t].call.full_response) :
                          result[t].call.full_response[i] = AnswerMarker}) = 2
        /\ AnalysisOf(result[t]) = <<"Not covered.">>

\* The instruction of the prompt.
InstructionText ==
    "Instruct: You are an expert Insurance Policy Analyst. Based on the following policy clauses, analyze the user's claim description. State if it is likely covered and cite the clause ID.\n\n"

\* The bullet line of clause c stands at place b of the prompt p.
BulletAt(p, b, c) ==
    /\ b + 3 <= Len(p)
    /\ p[b] = "- [" /\ p[b + 1] = c.clause_id /\ p[b + 2] = "] " /\ p[b + 3] = c.clause_text

\* C18 as stated: the prompt sent to the generation backend has one bullet
\* line per clause with its id and text, in the order given, then the query,
\* then the instruction to state coverage likelihood and cite the clause id.
C18_PromptLayout ==
    \A t \in Tasks :
        pc[t] = "gen_run" =>
            LET p == frame[t].prompt
                cs == frame[t].retrieved_clauses
            IN  \E q, ins \in 1..Len(p) :
                    /\ p[q] = frame[t].query
                    /\ p[ins] = InstructionText
                    /\ q < ins
                    /\ \E place \in [1..Len(cs) -> 1..Len(p)] :
                          /\ \A i \in 1..Len(cs) : BulletAt(p, place[i], cs[i]) /\ place[i] + 3 < q
                          /\ \A i, j \in 1..Len(cs) : i < j => place[i] < place[j]

\* C18 as amended: the prompt is the instruction to state coverage
\* likelihood and cite the clause id, then under the heading one bullet line
\* per clause with its id and text, in the order given, then the query,
\* then the answer marker, and nothing else: the prompt is a function of
\* (query, clauses).
C18_PromptLayoutInstructionFirst ==
    \A t \in Tasks :
        pc[t] = "gen_run" =>
            LET p == frame[t].prompt
                cs == frame[t].retrieved_clauses
                n == Len(cs)
            IN  /\ n >= 1
                /\ Len(p) = 5 * n + 6
                /\ p[1] = InstructionText
                /\ p[2] = "POLICY CLAUSES:\n"
                /\ \A i \in 1..n :
                      /\ BulletAt(p, 5 * i - 2, cs[i])
                      /\ i < n => p[5 * i + 2] = "\n"
                /\ p[5 * n + 2] = "\n\n"
                /\ p[5 * n + 3] = "USER CLAIM: "
                /\ p[5 * n + 4] = frame[t].query
                /\ p[5 * n + 5] = "\n\n"
                /\ p[5 * n + 6] = AnswerMarker

\* C18 witness: a prompt for two or more clauses is with the generation
\* backend.
C18_Witness ==
    \E t \in Tasks :
        /\ pc[t] = "gen_run"
        /\ Len(frame[t].retrieved_clauses) >= 2
        /\ frame[t].retrieved_clauses[1] # frame[t].retrieved_clauses[2]

SameSearch(a, b) ==
    /\ a.query_text = b.query_text
    /\ a.max_results = b.max_results
    /\ a.min_score = b.min_score

BackendsReady == vector_store_service.initialized /\ embedding_service.initialized

\* C20: search step order: a search gets the vector store and the embedding
\* backend ready first, then encodes its own query, once, and only when that
\* encoding has completed queries the index with that embedding and filters:
\* no search returns a result without having passed through its own encode
\* call, none encodes twice, and the result is that of the query for the
\* embedding of the search's own query text.
C20_SearchStepOrder ==
    [][\A t \in Tasks :
         /\ (StartedSearch(t) /\ TheCall(t).op = "search")
               => \/ pc'[t] \in {"emb_load", "emb_encode"}
                  \/ pc'[t] = "idle" /\ result'[t].status = "error"
         /\ (frame'[t].op = "search" /\ pc'[t] = "emb_encode" /\ pc[t] # "emb_encode")
               => /\ pc[t] \in {"idle", "emb_load"}
                  /\ BackendsReady'
                  /\ frame'[t].texts = <<frame'[t].query_text>>
         /\ (frame[t].op = "search" /\ pc[t] = "emb_load" /\ pc'[t] # "emb_load")
               => \/ pc'[t] = "emb_encode" /\ frame'[t] = frame[t]
                  \/ pc'[t] = "idle" /\ result'[t].status = "error"
         /\ (frame[t].op = "search" /\ pc[t] = "emb_encode" /\ pc'[t] # "emb_encode")
               => /\ pc'[t] = "idle"
                  /\ result'[t].status = "ok"
                        => /\ BackendsReady
                           /\ ExpectedResult(chroma.entries, frame[t].query_text,
                                  frame[t].max_results, frame[t].min_score, result'[t].value)
         /\ (result'[t] # result[t] /\ result'[t].status = "ok" /\ result'[t].op = "search")
               => pc[t] = "emb_encode" /\ frame[t].op = "search"]_vars

\* C20 witness: a search has returned a clause, and another caller's search
\* is at its encode call.
C20_Witness ==
    \E t, u \in Tasks :
        /\ t # u
        /\ SearchResultOf(t)
        /\ Len(result[t].value) >= 1
        /\ BackendsReady
        /\ pc[u] = "emb_encode" /\ frame[u].op = "search"

\* The resources of a backend whose flag is true are set.
ResourcesSet ==
    /\ embedding_service.initialized => embedding_service.model # None
    /\ generation_service.initialized =>
          (generation_service.tokenizer # None /\ generation_service.model # None)
    /\ vector_store_service.initialized =>
          (vector_store_service.client # None /\ vector_store_service.collection # None)

EmbResources == {"embedding_service.model"}
GenResources == {"generation_service.tokenizer", "generation_service.model"}
VsResources == {"vector_store_service.client", "vector_store_service.collection"}

\* C21: resources are stable once Ready: a backend whose flag is true has
\* its resources set (not None), and no step taken while the flag of a
\* backend is true assigns a resource of that backend, whatever the
\* interleaving of the callers.
C21_ResourcesStable ==
    /\ []ResourcesSet
    /\ [][/\ embedding_service.initialized => assigned' \cap EmbResources = {}
          /\ generation_service.initialized => assigned' \cap GenResources = {}
          /\ vector_store_service.initialized => assigned' \cap VsResources = {}]_vars

\* C22: vector store initialization is atomic on the event loop: no caller
\* is ever suspended between the test of the flag and its assignment, so no
\* state shows a collection without the flag; the step that assigns the
\* collection is taken with the flag false and sets it; and once the flag
\* is true no step of any search, add_policy_clauses, get_collection_count
\* or initialize caller assigns the client or the collection again: they
\* are opened at most once per successful initialization.
C22_AtomicStoreInit ==
    /\ [](vector_store_service.collection # None <=> vector_store_service.initialized)
    /\ [][/\ vector_store_service.initialized => assigned' \cap VsResources = {}
          /\ "vector_store_service.collection" \in assigned'
                => (~vector_store_service.initialized /\ vector_store_service'.initialized
                    /\ VsResources \subseteq assigned')]_vars

\* C22 witness: the store is initialized, one caller is suspended inside a
\* search, and another caller has meanwhile got a count back: both went
\* through the lazy initialization while the other was in flight.
C22_Witness ==
    /\ vector_store_service.initialized
    /\ \E t, u \in Tasks :
        /\ t # u
        /\ pc[t] \in {"emb_load", "emb_encode"} /\ frame[t].op = "search"
        /\ result[u].status = "ok" /\ result[u].op = "get_collection_count"

AllReady ==
    /\ embedding_service.initialized
    /\ vector_store_service.initialized
    /\ generation_service.initialized

HandlerRuns(t) == frame[t].op = "search_policies"

StartupFailed == result[0].status = "error"

InitializingEvents == {EmbInitializing, VsInitializing, GenInitializing}

\* C23: startup precedes serving: the application serves only with the
\* lifespan at its yield, which it reaches only with the embedding backend,
\* then the vector store, then the generation backend initialized; a startup
\* that has raised has served and serves no request.  So wherever a request
\* handler runs all three backends are Ready, no handler is inside a model
\* load, and no step taken while a handler runs, the handler's entry
\* included, assigns an attribute of a service or logs the start of an
\* initialization.
C23_StartupPrecedesServing ==
    /\ [](/\ Serving => AllReady
          /\ vector_store_service.initialized => embedding_service.initialized
          /\ generation_service.initialized => vector_store_service.initialized
          /\ StartupFailed => \A t \in Tasks \ {0} : pc[t] = "idle" /\ result[t] = NoResult
          /\ (\E t \in Tasks \ {0} : result[t] # NoResult \/ pc[t] # "idle") => Serving
          /\ \A t \in Tasks :
                HandlerRuns(t) => (AllReady /\ pc[t] \notin {"emb_load", "gen_load"}))
    /\ [][(\E t \in Tasks : HandlerRuns(t) \/ HandlerRuns(t)')
            => (/\ assigned' = {}
                /\ \A i \in 1..Len(logged') : logged'[i] \notin InitializingEvents)]_vars

\* C23 witness: the startup has completed and a request handler is inside
\* the generation call while another one is inside its search.
C23_Witness ==
    /\ Serving
    /\ \E t, u \in Tasks :
        /\ HandlerRuns(t) /\ pc[t] = "gen_run"
        /\ HandlerRuns(u) /\ pc[u] = "emb_encode"

InGeneration(t) == pc[t] \in {"gen_load", "gen_run"}

\* A handler has answered 200.
Answered(res) == res.status = "http" /\ res.op = "search_policies" /\ res.code = 200

\* C24: generation is gated by the request handler: a handler is inside
\* generate_analysis only with is_enable_rag true and a non-empty list of
\* retrieved clauses, and it gets there from the return of its search only,
\* with the clauses that search returned; a request answered 200 with
\* is_enable_rag false or with no clause retrieved is answered right from
\* the return of the search, without a call of the generation backend, and
\* with analysis None; a request answered 200 otherwise is answered from the
\* generation call; and total_results is the number of clauses in results.
C24_GenerationGate ==
    /\ [](\A t \in Tasks :
            /\ (HandlerRuns(t) /\ InGeneration(t))
                  => /\ frame[t].request.is_enable_rag
                     /\ frame[t].retrieved_clauses # <<>>
            /\ Answered(result[t])
                  => /\ result[t].body.total_results = Len(result[t].body.results)
                     /\ result[t].body.results = result[t].call.retrieved_clauses
                     /\ (result[t].body.analysis # NoAnalysis)
                           <=> (result[t].call.request.is_enable_rag
                                /\ result[t].body.results # <<>>))
    /\ [][\A t \in Tasks :
            /\ (HandlerRuns(t)' /\ InGeneration(t)' /\ ~InGeneration(t))
                  => /\ HandlerRuns(t) /\ pc[t] = "emb_encode"
                     /\ frame'[t].retrieved_clauses = PolicyClauses(SearchOutcome(frame[t]))
            /\ (HandlerRuns(t) /\ pc'[t] = "idle" /\ Answered(result'[t]))
                  => IF result'[t].call.request.is_enable_rag /\ result'[t].body.results # <<>>
                     THEN pc[t] = "gen_run"
                     ELSE pc[t] = "emb_encode"]_vars

\* C24 witness: a request with is_enable_rag true that retrieved two or
\* more clauses has been answered 200 with an analysis.
C24_Witness ==
    \E t \in Tasks :
        /\ Answered(result[t])
        /\ result[t].call.request.is_enable_rag
        /\ Len(result[t].body.results) >= 2
        /\ result[t].body.analysis # NoAnalysis

\* The step is one of a search() of caller t: its call, or a resumption of it.
SearchStep(t) ==
    /\ frame[t].op = "search" \/ frame'[t].op = "search"
    /\ pc'[t] # pc[t] \/ frame'[t] # frame[t] \/ result'[t] # result[t]

\* The step is the write of an add_policy_clauses of caller t.
AddWrite(t) ==
    frame[t].op = "add_policy_clauses" /\ pc[t] = "emb_encode" /\ pc'[t] = "idle"

\* C25: search is read-only on the index: no step of a search(), be it its
\* lazy initialization, its return with results or with an empty list, or
\* its exception, changes the entries of the collection (ids, documents,
\* metadata, embeddings, count); every step that changes them is the write
\* of an add_policy_clauses.
C25_SearchReadOnly ==
    [][/\ \A t \in Tasks : SearchStep(t) => chroma'.entries = chroma.entries
       /\ chroma'.entries # chroma.entries => \E t \in Tasks : AddWrite(t)]_vars

\* C25 witness: over the stored clauses C, A, B, which a search has opened
\* by its lazy initialization, one search has returned a clause and another
\* has returned an empty list or has raised.
C25_Witness ==
    /\ chroma.entries = StoredIndex
    /\ \E t, u \in Tasks :
        /\ t # u
        /\ result[t].status = "ok" /\ result[t].op = "search" /\ result[t].value # <<>>
        /\ result[u].status \in {"ok", "error"} /\ result[u].op = "search"
        /\ result[u].status = "ok" => result[u].value = <<>>

HealthAnswer(res) == res.status = "http" /\ res.op = "health_check"

\* C26: health status reflects readiness: a health answer is 200 with
\* status `healthy` exactly when its model_loaded and vector_store_ready
\* are both true and `degraded` otherwise; the step that gives the answer
\* reports the two flags as they are at the call, whatever the flag of the
\* generation backend, and changes no service, nothing in the database and
\* no other caller.
C26_HealthReflectsReadiness ==
    /\ [](\A t \in Tasks :
            HealthAnswer(result[t])
              => /\ result[t].code = 200
                 /\ result[t].body.status \in {"healthy", "degraded"}
                 /\ result[t].body.status = "healthy"
                       <=> (result[t].body.model_loaded /\ result[t].body.vector_store_ready))
    /\ [][\A t \in Tasks :
            (HealthAnswer(result'[t]) /\ result'[t] # result[t])
              => /\ result'[t].body.model_loaded = embedding_service.initialized
                 /\ result'[t].body.vector_store_ready = vector_store_service.initialized
                 /\ result'[t].body.status = "healthy"
                       <=> (embedding_service.initialized /\ vector_store_service.initialized)
                 /\ UNCHANGED <<services, pc, frame, peerOutcome>>
                 /\ assigned' = {}
                 /\ \A u \in Tasks \ {t} : result'[u] = result[u]]_vars

\* C26 witness: one caller holds a `degraded` answer given with only one
\* of the two flags true, another a `healthy` answer, and the generation
\* backend is not initialized.
C26_Witness ==
    /\ ~generation_service.initialized
    /\ \E t, u \in Tasks :
        /\ HealthAnswer(result[t]) /\ result[t].body.status = "degraded"
        /\ result[t].body.model_loaded # result[t].body.vector_store_ready
        /\ HealthAnswer(result[u]) /\ result[u].body.status = "healthy"

====
